---- MODULE Spec2Model ----
(***************************************************************************)
(* A model of GradioApp (src/app.py): the three request handlers           *)
(* detect_faces, reenact_face and detect_deepfakes.  Each handler is one   *)
(* atomic action; the collaborators (FaceDetector, FaceReenactor,          *)
(* PipelineDeepfakeDetection) and the file system are the environment:     *)
(* what they return, raise or leave on disk is chosen with \E.             *)
(*                                                                         *)
(* Numbers of the code that are Python floats are exact rationals <<n,d>>  *)
(* here (d > 0, lowest terms).  File names are records                     *)
(* [kind, a, b, ext]; a path is the sequence of its components.            *)
(***************************************************************************)
EXTENDS Integers, Sequences, FiniteSets, TLC

VARIABLES op, request, listing, response, log, escaped, earlier

vars == <<op, request, listing, response, log, escaped, earlier>>

(***************************************************************************)
(* Bounds of the model.                                                    *)
(***************************************************************************)
\* longest models_to_use list a request carries
MaxModels == 3
\* most detections a detector returns
MaxFaces == 2
\* the confidence thresholds of the bar runs are the multiples of 1/BarSteps
BarSteps == 40

(***************************************************************************)
(* Rational arithmetic (the code's float arithmetic on 0.5, 1.0, k/10).    *)
(***************************************************************************)
RECURSIVE GCD(_, _)
GCD(a, b) == IF b = 0 THEN a ELSE GCD(b, a % b)

Abs(x) == IF x < 0 THEN -x ELSE x

Rat(n, d) ==
    LET g == GCD(Abs(n), Abs(d))
        s == IF d < 0 THEN -1 ELSE 1
    IN  <<(s * n) \div g, (s * d) \div g>>

RAdd(x, y) == Rat(x[1] * y[2] + y[1] * x[2], x[2] * y[2])
RSub(x, y) == Rat(x[1] * y[2] - y[1] * x[2], x[2] * y[2])
RMul(x, y) == Rat(x[1] * y[1], x[2] * y[2])
RDiv(x, y) == Rat(x[1] * y[2], x[2] * y[1])
RLeq(x, y) == x[1] * y[2] <= y[1] * x[2]
RGeq(x, y) == RLeq(y, x)
RLt(x, y) == x[1] * y[2] < y[1] * x[2]

Zero == <<0, 1>>
One == <<1, 1>>

RECURSIVE RSum(_)
RSum(s) == IF s = <<>> THEN Zero ELSE RAdd(Head(s), RSum(Tail(s)))

Range(s) == {s[i] : i \in 1..Len(s)}

(***************************************************************************)
(* Paths.  Name(kind, a, b, ext) is one file or directory name:            *)
(*   plain          "{a}{ext}"                                             *)
(*   annotated      "{a}_annotated{ext}"     detected "{a}_detected{ext}"  *)
(*   detection      "{a}_detection{ext}"     reenacted "{a}_reenacted"     *)
(*   comparison_by  "comparison_{a}_by_{b}{ext}"                           *)
(*   comparison     "comparison_{a}{ext}"  (no "_by_" in it)               *)
(* None is the empty path.                                                 *)
(***************************************************************************)
Name(kind, a, b, ext) == [kind |-> kind, a |-> a, b |-> b, ext |-> ext]

Plain(a, ext) == Name("plain", a, "", ext)

None == <<>>

\* os.path.join(dir, name)
join(dir, name) == Append(dir, name)

\* os.path.basename(path)
basename(path) == path[Len(path)]

\* os.path.dirname(path)
dirname(path) == SubSeq(path, 1, Len(path) - 1)

\* os.path.splitext(name)[0] of a plain name
stem(name) == name.a

\* the uploads a request may name; the first two exist on disk
UploadDir == <<Plain("uploads", "")>>
FaceJpg == join(UploadDir, Plain("face", ".jpg"))
GoneJpg == join(UploadDir, Plain("gone", ".jpg"))
DriveMp4 == join(UploadDir, Plain("drive", ".mp4"))
GoneMp4 == join(UploadDir, Plain("lost", ".mp4"))

ExistingUploads == {FaceJpg, DriveMp4}

\* os.path.exists(path) of an upload
exists(path) == path \in ExistingUploads

\* Python truthiness of an Optional[str] path
truthy(path) == path # None

(***************************************************************************)
(* What a handler's body did: it returned a value or raised, and the       *)
(* events it logged (collaborator calls, the weight division, the          *)
(* artifact candidates it tried).                                          *)
(*                                                                         *)
(* `earlier` is a history variable: a finished request kept for comparison *)
(* with a later one.  No handler reads it; Spec never sets it.             *)
(***************************************************************************)
Event(ev, arg) == [ev |-> ev, arg |-> arg]

Return(value, events) == [raised |-> FALSE, value |-> value, exc |-> "", events |-> events]

\* an exception with message `exc` leaves the body
Raise(exc, events) ==
    [raised |-> TRUE, value |-> <<>>, exc |-> exc,
     events |-> Append(events, Event("raised", exc))]

\* one slot of a handler's return tuple that holds a path or None
Out(path) == [kind |-> IF path = <<>> THEN "none" ELSE "path", path |-> path]

\* messages of the exceptions a collaborator may raise
ExcMsgs == {"CUDA out of memory", "Unknown model"}

\* a collaborator call that returned `value`, or raised with message `exc`
Returned(value) == [raised |-> FALSE, value |-> <<value>>, exc |-> ""]
Raised(exc) == [raised |-> TRUE, value |-> <<>>, exc |-> exc]

(***************************************************************************)
(* detect_deepfakes                                                        *)
(***************************************************************************)
\* the media selection of lines 224-234; media_type "" is the else branch
\* a selection that labels the image as a video when a video came with it
select_media_mislabelled(image_file, video_file) ==
    IF truthy(image_file) /\ exists(image_file)
    THEN [media_file |-> image_file,
          media_type |-> IF truthy(video_file) THEN "video" ELSE "image"]
    ELSE IF truthy(video_file) /\ exists(video_file)
         THEN [media_file |-> video_file, media_type |-> "video"]
         ELSE [media_file |-> None, media_type |-> ""]

\* lines 224-234: the image wins when it exists, else the video
select_media(image_file, video_file) ==
    IF truthy(image_file) /\ exists(image_file)
    THEN [media_file |-> image_file, media_type |-> "image"]
    ELSE IF truthy(video_file) /\ exists(video_file)
         THEN [media_file |-> video_file, media_type |-> "video"]
         ELSE [media_file |-> None, media_type |-> ""]

\* a configuration that gives every requested entry a weight, registered or not
configure_models_unfiltered(models_to_use) ==
    [i \in 1..Len(models_to_use) |-> <<models_to_use[i], Rat(1, 2)>>]

\* model_configs as the dict of lines 237-243, in insertion order
configure_models(models_to_use) ==
    (IF "resnet_inception" \in Range(models_to_use)
     THEN << <<"resnet_inception", Rat(1, 2)>> >> ELSE <<>>)
    \o
    (IF "efficientnet" \in Range(models_to_use)
     THEN << <<"efficientnet", Rat(1, 2)>> >> ELSE <<>>)

\* an emptiness check that never fires
no_models_selected_never(model_configs) == FALSE

\* `if not model_configs` of line 246
no_models_selected(model_configs) == model_configs = <<>>

values(model_configs) == [i \in 1..Len(model_configs) |-> model_configs[i][2]]

keys(model_configs) == [i \in 1..Len(model_configs) |-> model_configs[i][1]]

\* sum(model_configs.values()) of line 253
total_weight(model_configs) == RSum(values(model_configs))

\* the guard of line 254
divides(model_configs) == RLt(Zero, total_weight(model_configs))

\* a normalization that leaves the base weights as they are
normalize_weights_skipped(model_configs) == model_configs

\* lines 253-255
normalize_weights(model_configs) ==
    IF divides(model_configs)
    THEN [i \in 1..Len(model_configs) |->
            <<model_configs[i][1], RDiv(model_configs[i][2], total_weight(model_configs))>>]
    ELSE model_configs

\* the default of get_confidence_bar's width parameter
width == 20

\* round(x * 1000) to the nearest integer, ties to even: the "{:.1%}" format
permille(x) ==
    LET n == x[1] * 1000
        q == n \div x[2]
        r == n % x[2]
    IN  IF 2 * r < x[2] THEN q
        ELSE IF 2 * r > x[2] THEN q + 1
        ELSE IF q % 2 = 0 THEN q ELSE q + 1

\* a bar that rounds the filled cells up
get_confidence_bar_ceil(confidence) ==
    LET filled == (confidence[1] * width + confidence[2] - 1) \div confidence[2]
    IN  [filled |-> filled, empty |-> width - filled, permille |-> permille(confidence)]

\* get_confidence_bar: `filled` full cells, then the empty ones, then "{:.1%}"
get_confidence_bar(confidence) ==
    LET filled == (confidence[1] * width) \div confidence[2]
    IN  [filled |-> filled, empty |-> width - filled, permille |-> permille(confidence)]

get_risk_level(confidence, is_deepfake) ==
    IF is_deepfake
    THEN IF RGeq(confidence, Rat(8, 10)) THEN "HIGH RISK"
         ELSE IF RGeq(confidence, Rat(6, 10)) THEN "MEDIUM RISK"
         ELSE "LOW RISK"
    ELSE IF RGeq(confidence, Rat(8, 10)) THEN "VERY CONFIDENT"
         ELSE IF RGeq(confidence, Rat(6, 10)) THEN "CONFIDENT"
         ELSE "UNCERTAIN"

\* a confidence that is the threshold whatever the verdict
avg_confidence_unflipped(confidence_threshold, overall_is_deepfake) == confidence_threshold

\* lines 309-313
avg_confidence(confidence_threshold, overall_is_deepfake) ==
    IF overall_is_deepfake THEN confidence_threshold
    ELSE RSub(One, confidence_threshold)

\* a presenter that reports the missing annotated media instead of the verdict
results_text_needs_artifact(media, models_to_use, model_configs, confidence_threshold, num_frames, result) ==
    [kind |-> "error", message |-> "Annotated media not found", detail |-> ""]

\* the report text of lines 315-358, one field per interpolated value
results_text(media, models_to_use, model_configs, confidence_threshold, num_frames, result) ==
    [kind |-> "report",
     title |-> IF media.media_type = "image" THEN "Image Analysis Results"
               ELSE "Video Analysis Results",
     file |-> basename(media.media_file),
     media_type |-> IF media.media_type = "image" THEN "Image" ELSE "Video",
     models_used |-> models_to_use,
     threshold_permille |-> permille(confidence_threshold),
     overall_icon |-> IF result THEN "alarm" ELSE "check",
     overall_status |-> IF result THEN "DEEPFAKE" ELSE "AUTHENTIC",
     pipeline_result |-> get_confidence_bar(avg_confidence(confidence_threshold, result)),
     pipeline_models |-> keys(model_configs),
     model_weights |-> model_configs,
     frames_analyzed |-> IF media.media_type = "video" THEN <<num_frames>> ELSE <<>>,
     recommendation |-> IF result
                        THEN "This media shows strong indicators of being a deepfake."
                        ELSE "This media appears to be authentic.",
     n_models |-> Len(model_configs)]

ErrorText(message, detail) == [kind |-> "error", message |-> message, detail |-> detail]

UploadError == ErrorText("Please upload either an image or video file", "")

NoModelsError ==
    ErrorText("Please select at least one model to use for deepfake detection", "")

\* os.path.join(self.output_dir, ...)
output_dir == <<Plain("gradio_output", "")>>

\* a deepfake run that writes straight into the output root
deepfake_output_folder_root == output_dir

deepfake_output_folder == join(output_dir, Plain("deepfake_detection", ""))

\* a pipeline call that tries detect a second time when it raises
call_pipeline_retrying(media, model_configs, confidence_threshold, num_frames, ctor, det, events) ==
    LET made == Append(events,
                    Event("PipelineDeepfakeDetection",
                          [model_configs |-> model_configs,
                           device |-> "None",
                           confidence_threshold |-> confidence_threshold]))
        detect == Event("pipeline.detect",
                        [media_path |-> media.media_file,
                         output_folder |-> deepfake_output_folder,
                         save_csv |-> TRUE,
                         num_frames |-> num_frames])
    IN  IF ctor.raised THEN Raise(ctor.exc, made)
        ELSE IF det.raised THEN Raise(det.exc, made \o <<detect, detect>>)
        ELSE Return(det.value[1], made \o <<detect, Event("result", det.value[1])>>)

\* the calls of lines 258-273: the constructor, then detect
call_pipeline(media, model_configs, confidence_threshold, num_frames, ctor, det, events) ==
    LET made == Append(events,
                    Event("PipelineDeepfakeDetection",
                          [model_configs |-> model_configs,
                           device |-> "None",
                           confidence_threshold |-> confidence_threshold]))
        called == Append(made,
                    Event("pipeline.detect",
                          [media_path |-> media.media_file,
                           output_folder |-> deepfake_output_folder,
                           save_csv |-> TRUE,
                           num_frames |-> num_frames]))
    IN  IF ctor.raised THEN Raise(ctor.exc, made)
        ELSE IF det.raised THEN Raise(det.exc, called)
        ELSE Return(det.value[1], Append(called, Event("result", det.value[1])))

\* what lines 245-255 do with a non-empty model_configs: the check, then the division
normalize_events(model_configs) ==
    <<Event("check_models", Len(model_configs))>>
    \o (IF divides(model_configs)
        THEN <<Event("divide", total_weight(model_configs))>> ELSE <<>>)

\* the try body, lines 224-363
deepfakes_body(image_file, video_file, models_to_use, confidence_threshold, num_frames, ctor, det) ==
    LET media == select_media(image_file, video_file)
        model_configs == configure_models(models_to_use)
        normalized == normalize_weights(model_configs)
    IN  IF media.media_type = ""
        THEN Return(<<Out(None), UploadError>>, <<>>)
        ELSE IF no_models_selected(model_configs)
        THEN Return(<<Out(None), NoModelsError>>,
                    <<Event("check_models", Len(model_configs))>>)
        ELSE LET run == call_pipeline(media, normalized, confidence_threshold,
                                      num_frames, ctor, det,
                                      normalize_events(model_configs))
                 annotated_media_path == None
             IN  IF run.raised THEN run
                 ELSE Return(<<Out(annotated_media_path),
                               results_text(media, models_to_use, normalized,
                                            confidence_threshold, num_frames, run.value)>>,
                             run.events)

\* `except Exception as e` of lines 365-366
deepfakes_except(body) ==
    [value |-> <<Out(None), ErrorText("Error", body.exc)>>,
     events |-> body.events, escaped |-> FALSE]

detect_deepfakes(image_file, video_file, models_to_use, confidence_threshold, num_frames, ctor, det) ==
    LET body == deepfakes_body(image_file, video_file, models_to_use,
                               confidence_threshold, num_frames, ctor, det)
    IN  IF body.raised THEN deepfakes_except(body)
        ELSE [value |-> body.value, events |-> body.events, escaped |-> FALSE]

(***************************************************************************)
(* The artifact searches.  A listing maps a directory to the names in it,  *)
(* in the order os.listdir (and so glob.glob) yields them.                 *)
(***************************************************************************)
files_in(ls, dir) == IF dir \in DOMAIN ls THEN ls[dir] ELSE <<>>

\* os.path.exists(os.path.join(dir, name)) in an output directory
exists_in(ls, dir, name) == name \in Range(files_in(ls, dir))

\* fnmatch of one name against one pattern; "*" is the wildcard
fnmatch(name, pattern) ==
    /\ name.ext = pattern.ext
    /\ IF pattern.kind = "comparison" /\ pattern.a = "*"
       THEN name.kind \in {"comparison", "comparison_by"}
       ELSE IF pattern.kind = "comparison_by"
       THEN /\ name.kind = "comparison_by"
            /\ name.a = pattern.a
            /\ (pattern.b = "*" \/ name.b = pattern.b)
       ELSE name = pattern

\* glob.glob(os.path.join(dir, pattern)): the matches, in listing order
glob(ls, dir, pattern) ==
    LET files == files_in(ls, dir)
        hits == SelectSeq(files, LAMBDA f : fnmatch(f, pattern))
    IN  [i \in 1..Len(hits) |-> join(dir, hits[i])]

\* the loop of lines 99-103: the first possible name that exists
RECURSIVE find_annotated(_, _, _, _)
find_annotated(ls, output_folder, possible_names, i) ==
    IF i > Len(possible_names) THEN [found |-> None, tried |-> <<>>]
    ELSE LET try == Event("exists", [dir |-> output_folder, pattern |-> possible_names[i]])
         IN  IF exists_in(ls, output_folder, possible_names[i])
             THEN [found |-> join(output_folder, possible_names[i]), tried |-> <<try>>]
             ELSE LET rest == find_annotated(ls, output_folder, possible_names, i + 1)
                  IN  [found |-> rest.found, tried |-> <<try>> \o rest.tried]

\* a search loop without its break: the last pattern with a match wins
RECURSIVE find_comparison_no_break(_, _, _, _)
find_comparison_no_break(ls, dir, patterns, i) ==
    IF i > Len(patterns) THEN [found |-> None, tried |-> <<>>]
    ELSE LET try == Event("glob", [dir |-> dir, pattern |-> patterns[i]])
             comparison_files == glob(ls, dir, patterns[i])
             rest == find_comparison_no_break(ls, dir, patterns, i + 1)
         IN  [found |-> IF truthy(rest.found) \/ comparison_files = <<>>
                        THEN rest.found ELSE comparison_files[1],
              tried |-> <<try>> \o rest.tried]

\* the loops of lines 183-187 and 192-196: the first pattern with a match
RECURSIVE find_comparison(_, _, _, _)
find_comparison(ls, dir, patterns, i) ==
    IF i > Len(patterns) THEN [found |-> None, tried |-> <<>>]
    ELSE LET try == Event("glob", [dir |-> dir, pattern |-> patterns[i]])
             comparison_files == glob(ls, dir, patterns[i])
         IN  IF comparison_files # <<>>
             THEN [found |-> comparison_files[1], tried |-> <<try>>]
             ELSE LET rest == find_comparison(ls, dir, patterns, i + 1)
                  IN  [found |-> rest.found, tried |-> <<try>> \o rest.tried]

(***************************************************************************)
(* detect_faces                                                            *)
(***************************************************************************)
\* lines 93-97
possible_names(image_path) ==
    LET name == stem(basename(image_path))
        ext == basename(image_path).ext
    IN  <<Name("annotated", name, "", ext),
          Name("detected", name, "", ext),
          Name("detection", name, "", ext)>>

\* lines 72-75
face_output_folder(detection_model) ==
    join(join(output_dir, Plain("face_detection", "")), Plain(detection_model, ""))

json_name == Plain("detections", ".json")

\* lines 106-110
faces_text(detections) ==
    [kind |-> "faces", found |-> Len(detections), faces |-> detections]

PathError(message, path) == [kind |-> "error", message |-> message, path |-> path]

ModelError(message, model, detail) ==
    [kind |-> "error", message |-> message, detail |-> detail, model |-> model]

\* the try body, lines 50-120
faces_body(image_path, detection_model, ls, create, detect) ==
    IF ~truthy(image_path)
    THEN Return(<<Out(None), Out(None), ErrorText("Error: No image provided", "")>>, <<>>)
    ELSE IF ~exists(image_path)
    THEN Return(<<Out(None), Out(None),
                  PathError("Error: Image file not found", image_path)>>, <<>>)
    ELSE LET created == <<Event("FaceDetector.create", detection_model)>>
             output_folder == face_output_folder(detection_model)
             json_path == join(output_folder, json_name)
             detected == Append(created,
                            Event("detector.detect",
                                  [image_path |-> image_path, save_json |-> TRUE,
                                   json_path |-> json_path, save_annotated |-> TRUE,
                                   output_folder |-> output_folder]))
             annotated == find_annotated(ls, output_folder, possible_names(image_path), 1)
         IN  IF create.raised
             THEN Return(<<Out(None), Out(None),
                           ModelError("Error creating detector", detection_model, create.exc)>>,
                         Append(created, Event("raised", create.exc)))
             ELSE IF detect.raised THEN Raise(detect.exc, detected)
             ELSE Return(<<Out(annotated.found),
                           Out(IF exists_in(ls, output_folder, json_name)
                               THEN json_path ELSE None),
                           faces_text(detect.value[1])>>,
                         Append(detected, Event("result", detect.value[1]))
                         \o annotated.tried)

\* `except Exception as e` of lines 122-123
faces_except(body) ==
    [value |-> <<Out(None), Out(None), ErrorText("Error", body.exc)>>,
     events |-> body.events, escaped |-> FALSE]

detect_faces(image_path, detection_model, ls, create, detect) ==
    LET body == faces_body(image_path, detection_model, ls, create, detect)
    IN  IF body.raised THEN faces_except(body)
        ELSE [value |-> body.value, events |-> body.events, escaped |-> FALSE]

(***************************************************************************)
(* reenact_face                                                            *)
(***************************************************************************)
\* lines 148-150
reenact_output_folder(reenactor_model) ==
    join(join(output_dir, Plain("face_reenactment", "")), Plain(reenactor_model, ""))

\* line 154
reenact_output_path(reenactor_model, source_name) ==
    join(reenact_output_folder(reenactor_model), Name("reenacted", source_name, "", ""))

\* the patterns with the generic one first
comparison_patterns_generic_first(source_name, driving_name) ==
    <<Name("comparison", "*", "", ".mp4"),
      Name("comparison_by", source_name, "*", ".mp4"),
      Name("comparison_by", source_name, driving_name, ".mp4")>>

\* lines 175-179
comparison_patterns(source_name, driving_name) ==
    <<Name("comparison_by", source_name, driving_name, ".mp4"),
      Name("comparison_by", source_name, "*", ".mp4"),
      Name("comparison", "*", "", ".mp4")>>

\* lines 165-196: the search directory first, then the result's directory
locate_comparison(ls, search_dir, result_dir, patterns) ==
    LET first == find_comparison(ls, search_dir, patterns, 1)
        second == find_comparison(ls, result_dir, patterns, 1)
    IN  IF truthy(first.found) THEN first
        ELSE [found |-> second.found, tried |-> first.tried \o second.tried]

\* os.path.basename(None) raises TypeError
TypeErrorMsg == "expected str, bytes or os.PathLike object, not NoneType"

\* the try body, lines 144-198
reenact_body(source_image, driving_video, reenactor_model, resize, ls, create, reenact) ==
    LET created == <<Event("FaceReenactor.create", reenactor_model)>>
        output_folder == reenact_output_folder(reenactor_model)
        made == Append(created, Event("os.makedirs", output_folder))
        source_name == stem(basename(source_image))
        output_path == reenact_output_path(reenactor_model, source_name)
        called == Append(made,
                    Event("reenact_from_video",
                          [source_path |-> source_image, driving_video_path |-> driving_video,
                           output_path |-> output_path, save_comparison |-> TRUE,
                           resize_to_image_resolution |-> resize]))
        result_path == reenact.value[1]
        driving_name == stem(basename(driving_video))
        comparison == locate_comparison(ls, output_path, dirname(result_path),
                                        comparison_patterns(source_name, driving_name))
    IN  IF create.raised THEN Raise(create.exc, created)
        ELSE IF ~truthy(source_image) THEN Raise(TypeErrorMsg, made)
        ELSE IF reenact.raised THEN Raise(reenact.exc, called)
        ELSE IF ~truthy(driving_video)
        THEN Raise(TypeErrorMsg, Append(called, Event("result", result_path)))
        ELSE Return(<<Out(result_path), Out(comparison.found)>>,
                    Append(called, Event("result", result_path)) \o comparison.tried)

\* `except Exception as e` of lines 200-201: the message is dropped
reenact_except(body) ==
    [value |-> <<Out(None), Out(None)>>, events |-> body.events, escaped |-> FALSE]

reenact_face(source_image, driving_video, reenactor_model, resize, ls, create, reenact) ==
    LET body == reenact_body(source_image, driving_video, reenactor_model, resize, ls,
                             create, reenact)
    IN  IF body.raised THEN reenact_except(body)
        ELSE [value |-> body.value, events |-> body.events, escaped |-> FALSE]

(***************************************************************************)
(* The requests the interface can send.                                    *)
(***************************************************************************)
ImageInputs == {None, FaceJpg, GoneJpg}
VideoInputs == {None, DriveMp4, GoneMp4}

\* the CheckboxGroup's choices, and a name that is not registered
ModelNames == {"resnet_inception", "efficientnet", "xception"}

SeqsUpTo(S, n) == UNION {[1..k -> S] : k \in 0..n}

ModelLists == SeqsUpTo(ModelNames, MaxModels)

\* the Slider: minimum 0.0, maximum 1.0, step 0.1
Thresholds == {Rat(k, 10) : k \in 0..10}

\* the frame Slider's default and its minimum
FrameCounts == {1, 11}

CtorOutcomes == {Returned(TRUE)} \cup {Raised(m) : m \in ExcMsgs}
DetectOutcomes == {Returned(b) : b \in BOOLEAN} \cup {Raised(m) : m \in ExcMsgs}

\* the detection Dropdown's choices, and a name FaceDetector does not know
FaceModels == {"blazeface", "mediapipe", "ultralight"}
FaceModelNames == FaceModels \cup {"retinaface"}

\* the reenactment Dropdown's choice, and a name FaceReenactor does not know
ReenactModels == {"tps"}
ReenactModelNames == ReenactModels \cup {"fomm"}

\* a factory raises for a name it does not know, and may raise for one it knows
CreateOutcomes(model, known) ==
    (IF model \in known THEN {Returned(TRUE)} ELSE {}) \cup {Raised(m) : m \in ExcMsgs}

\* what a detector returns: Detection objects with a confidence and a box
Detections ==
    {[confidence |-> Rat(9, 10), x1 |-> 1, y1 |-> 1, x2 |-> 5, y2 |-> 5],
     [confidence |-> Rat(1, 2), x1 |-> 2, y1 |-> 3, x2 |-> 4, y2 |-> 6]}

FaceDetectOutcomes ==
    {Returned(d) : d \in SeqsUpTo(Detections, MaxFaces)} \cup {Raised(m) : m \in ExcMsgs}

\* the subsequences of `base`
Subseqs(base) == {SelectSeq(base, LAMBDA x : x \in S) : S \in SUBSET Range(base)}

\* the sequences without repetition over S
Orderings(S) ==
    {q \in SeqsUpTo(S, Cardinality(S)) : \A i, j \in 1..Len(q) : i # j => q[i] # q[j]}

\* what may lie in a detector's output folder after a run on face.jpg
FaceFolderNames ==
    <<Name("annotated", "face", "", ".jpg"), Name("detected", "face", "", ".jpg"),
      Name("detection", "face", "", ".jpg"), Name("annotated", "other", "", ".jpg"),
      json_name>>

FaceListings(detection_model) ==
    {[d \in {face_output_folder(detection_model)} |-> q] : q \in Subseqs(FaceFolderNames)}

\* where a reenactor may put its result for source "face": in the directory it was
\* given, beside it (output_path + ".mp4"), or one directory deeper
ResultPaths(reenactor_model) ==
    LET output_path == reenact_output_path(reenactor_model, "face")
    IN  {join(output_path, Plain("face_by_drive", ".mp4")),
         join(reenact_output_folder(reenactor_model), Name("reenacted", "face", "", ".mp4")),
         join(join(output_path, Plain("videos", "")), Plain("face_by_drive", ".mp4"))}

ReenactOutcomes(reenactor_model) ==
    {Returned(p) : p \in ResultPaths(reenactor_model)} \cup {Raised(m) : m \in ExcMsgs}

\* comparison videos that may lie in a directory the search looks at
ComparisonNames ==
    {Name("comparison_by", "face", "drive", ".mp4"),
     Name("comparison_by", "face", "old", ".mp4"),
     Name("comparison", "other", "", ".mp4")}

ReenactListings(reenactor_model, reenact) ==
    LET dirs == {reenact_output_path(reenactor_model, "face")}
                \cup (IF reenact.raised THEN {} ELSE {dirname(reenact.value[1])})
    IN  [dirs -> Orderings(ComparisonNames)]

Init ==
    /\ op = "idle"
    /\ request = <<>>
    /\ listing = <<>>
    /\ response = <<>>
    /\ log = <<>>
    /\ escaped = FALSE
    /\ earlier = <<>>

DetectFaces ==
    /\ op = "idle"
    /\ \E image_path \in ImageInputs, detection_model \in FaceModelNames :
       \E create \in CreateOutcomes(detection_model, FaceModels),
          detect \in FaceDetectOutcomes, ls \in FaceListings(detection_model) :
        LET r == detect_faces(image_path, detection_model, ls, create, detect)
        IN  /\ op' = "detect_faces"
            /\ request' = [image_path |-> image_path, detection_model |-> detection_model]
            /\ listing' = ls
            /\ response' = r.value
            /\ log' = r.events
            /\ escaped' = r.escaped
            /\ earlier' = earlier

ReenactFace ==
    /\ op = "idle"
    /\ \E source_image \in {None, FaceJpg}, driving_video \in {None, DriveMp4},
          reenactor_model \in ReenactModelNames, resize \in BOOLEAN :
       \E create \in CreateOutcomes(reenactor_model, ReenactModels),
          reenact \in ReenactOutcomes(reenactor_model) :
       \E ls \in ReenactListings(reenactor_model, reenact) :
        LET r == reenact_face(source_image, driving_video, reenactor_model, resize, ls,
                              create, reenact)
        IN  /\ op' = "reenact_face"
            /\ request' = [source_image |-> source_image, driving_video |-> driving_video,
                           reenactor_model |-> reenactor_model,
                           resize_to_image_resolution |-> resize]
            /\ listing' = ls
            /\ response' = r.value
            /\ log' = r.events
            /\ escaped' = r.escaped
            /\ earlier' = earlier

DetectDeepfakes ==
    /\ op = "idle"
    /\ \E image_file \in ImageInputs, video_file \in VideoInputs,
       models_to_use \in ModelLists, confidence_threshold \in Thresholds,
       num_frames \in FrameCounts, ctor \in CtorOutcomes, det \in DetectOutcomes :
        LET r == detect_deepfakes(image_file, video_file, models_to_use,
                                  confidence_threshold, num_frames, ctor, det)
        IN  /\ op' = "detect_deepfakes"
            /\ request' = [image_file |-> image_file, video_file |-> video_file,
                           models_to_use |-> models_to_use,
                           confidence_threshold |-> confidence_threshold,
                           num_frames |-> num_frames]
            /\ listing' = <<>>
            /\ response' = r.value
            /\ log' = r.events
            /\ escaped' = r.escaped
            /\ earlier' = earlier

\* the handler's return value goes to the interface; nothing of the request is kept
Deliver ==
    /\ op # "idle"
    /\ op' = "idle"
    /\ request' = <<>>
    /\ listing' = <<>>
    /\ response' = <<>>
    /\ log' = <<>>
    /\ escaped' = FALSE
    /\ earlier' = earlier

Next ==
    \/ DetectFaces
    \/ ReenactFace
    \/ DetectDeepfakes
    \/ Deliver

Spec == Init /\ [][Next]_vars

(***************************************************************************)
(* Two requests in one run.  The handlers are the same operators as above, *)
(* called with fewer inputs so that a finished request can be kept in      *)
(* `earlier` and compared with every later one.  Gradio runs each click in *)
(* its own call of the handler, and a handler reads nothing but its        *)
(* arguments, self.output_dir and the disk, so two concurrent requests     *)
(* see what they would see one after the other.                            *)
(***************************************************************************)
Current == [op |-> op, request |-> request, response |-> response, log |-> log]

\* the finished request is delivered and kept for comparison
Remember ==
    /\ op # "idle"
    /\ earlier' = <<Current>>
    /\ op' = "idle"
    /\ request' = <<>>
    /\ listing' = <<>>
    /\ response' = <<>>
    /\ log' = <<>>
    /\ escaped' = FALSE

ReplayFaceModels == {"blazeface", "mediapipe"}
ReplayModelLists ==
    {<<"resnet_inception">>, <<"efficientnet", "resnet_inception">>,
     <<"resnet_inception", "xception">>}
ReplayThresholds == {Rat(1, 2), Rat(4, 5)}

Empty(ls) == \A d \in DOMAIN ls : ls[d] = <<>>

ReplayFaces ==
    /\ op = "idle"
    /\ \E detection_model \in ReplayFaceModels :
       \E ls \in {l \in FaceListings(detection_model) : Empty(l)} :
        LET r == detect_faces(FaceJpg, detection_model, ls, Returned(TRUE),
                              Returned(<<>>))
        IN  /\ op' = "detect_faces"
            /\ request' = [image_path |-> FaceJpg, detection_model |-> detection_model]
            /\ listing' = ls
            /\ response' = r.value
            /\ log' = r.events
            /\ escaped' = r.escaped
            /\ earlier' = earlier

ReplayReenact ==
    /\ op = "idle"
    /\ \E reenactor_model \in ReenactModels, resize \in BOOLEAN :
       \E reenact \in ReenactOutcomes(reenactor_model) :
       \E ls \in {l \in ReenactListings(reenactor_model, reenact) : Empty(l)} :
        LET r == reenact_face(FaceJpg, DriveMp4, reenactor_model, resize, ls,
                              Returned(TRUE), reenact)
        IN  /\ op' = "reenact_face"
            /\ request' = [source_image |-> FaceJpg, driving_video |-> DriveMp4,
                           reenactor_model |-> reenactor_model,
                           resize_to_image_resolution |-> resize]
            /\ listing' = ls
            /\ response' = r.value
            /\ log' = r.events
            /\ escaped' = r.escaped
            /\ earlier' = earlier

ReplayDeepfakes ==
    /\ op = "idle"
    /\ \E image_file \in {None, FaceJpg}, video_file \in {None, DriveMp4},
       models_to_use \in ReplayModelLists, confidence_threshold \in ReplayThresholds,
       num_frames \in FrameCounts, det \in DetectOutcomes :
        LET r == detect_deepfakes(image_file, video_file, models_to_use,
                                  confidence_threshold, num_frames, Returned(TRUE), det)
        IN  /\ op' = "detect_deepfakes"
            /\ request' = [image_file |-> image_file, video_file |-> video_file,
                           models_to_use |-> models_to_use,
                           confidence_threshold |-> confidence_threshold,
                           num_frames |-> num_frames]
            /\ listing' = <<>>
            /\ response' = r.value
            /\ log' = r.events
            /\ escaped' = r.escaped
            /\ earlier' = earlier

NextReplay ==
    \/ ReplayFaces
    \/ ReplayReenact
    \/ ReplayDeepfakes
    \/ Remember
    \/ Deliver

SpecReplay == Init /\ [][NextReplay]_vars

(***************************************************************************)
(* The confidence bar over a finer grid than the Slider's: the handler     *)
(* takes any float as confidence_threshold.                                *)
(***************************************************************************)
BarThresholds == {Rat(k, BarSteps) : k \in 0..BarSteps}

BarDeepfakes ==
    /\ op = "idle"
    /\ \E confidence_threshold \in BarThresholds, verdict \in BOOLEAN :
        LET models_to_use == <<"resnet_inception">>
            r == detect_deepfakes(FaceJpg, None, models_to_use, confidence_threshold,
                                  11, Returned(TRUE), Returned(verdict))
        IN  /\ op' = "detect_deepfakes"
            /\ request' = [image_file |-> FaceJpg, video_file |-> None,
                           models_to_use |-> models_to_use,
                           confidence_threshold |-> confidence_threshold,
                           num_frames |-> 11]
            /\ listing' = <<>>
            /\ response' = r.value
            /\ log' = r.events
            /\ escaped' = r.escaped
            /\ earlier' = earlier

NextBar ==
    \/ BarDeepfakes
    \/ Remember
    \/ Deliver

SpecBar == Init /\ [][NextBar]_vars

(***************************************************************************)
(* Reading a finished request.                                             *)
(***************************************************************************)
EventsOf(ev) == SelectSeq(log, LAMBDA e : e.ev = ev)

CtorCalls == EventsOf("PipelineDeepfakeDetection")
DetectCalls == EventsOf("pipeline.detect")

\* the identifiers the deepfake pipeline registers
Registered == {"resnet_inception", "efficientnet"}

\* the requested identifiers that are registered
Kept == Range(request.models_to_use) \cap Registered

Supplied(path) == path # None /\ path \in ExistingUploads

\* a detect_deepfakes request with a media file that exists
MediaGiven ==
    /\ op = "detect_deepfakes"
    /\ (Supplied(request.image_file) \/ Supplied(request.video_file))

\* a detect_deepfakes request that passes both validations
Validated == MediaGiven /\ Kept # {}

\* an entry (key, weight) of a weight map
WeightOf(map, key) == {map[i][2] : i \in {j \in 1..Len(map) : map[j][1] = key}}

(***************************************************************************)
(* C1: for every request that selects a non-empty set of registered models *)
(* (and names a media file), the weight map handed to the pipeline has     *)
(* weights that sum to exactly 1.                                          *)
(***************************************************************************)
C1_WeightsSumToOne ==
    Validated =>
        /\ Len(CtorCalls) = 1
        /\ RSum(values(CtorCalls[1].arg.model_configs)) = One

C1_Witness ==
    /\ Validated
    /\ Kept = {"efficientnet"}
    /\ Len(CtorCalls) = 1
    /\ WeightOf(CtorCalls[1].arg.model_configs, "efficientnet") = {One}

(***************************************************************************)
(* C2: the weight map's keys are exactly the requested identifiers that    *)
(* are registered, each once, and each weight is 0.5 divided by the sum of *)
(* the kept base weights: 1/2 each for both models, 1 for a single one;    *)
(* duplicates and unknown names in the request change nothing.             *)
(***************************************************************************)
C2_WeightMapIsFilteredAndRescaled ==
    Validated =>
        LET map == CtorCalls[1].arg.model_configs
        IN  /\ Range(keys(map)) = Kept
            /\ Len(map) = Cardinality(Kept)
            /\ \A i \in 1..Len(map) :
                 map[i][2] = RDiv(Rat(1, 2), RMul(Rat(Cardinality(Kept), 1), Rat(1, 2)))
            /\ Kept = Registered =>
                 map = << <<"resnet_inception", Rat(1, 2)>>, <<"efficientnet", Rat(1, 2)>> >>
            /\ Kept = {"resnet_inception"} => map = << <<"resnet_inception", One>> >>
            /\ Kept = {"efficientnet"} => map = << <<"efficientnet", One>> >>

\* one registered model requested twice, with an unknown name between
C2_Witness ==
    /\ Validated
    /\ request.models_to_use = <<"efficientnet", "xception", "efficientnet">>
    /\ CtorCalls[1].arg.model_configs = << <<"efficientnet", One>> >>

C4_ExactlyOneMedia ==
    op = "detect_deepfakes" =>
        LET both == Supplied(request.image_file) /\ Supplied(request.video_file)
            neither == request.image_file = None /\ request.video_file = None
        IN  (both \/ neither) =>
                /\ response[2].kind = "error"
                /\ CtorCalls = <<>>
                /\ DetectCalls = <<>>

(***************************************************************************)
(* C5: in every report, the confidence shown is the threshold t when the   *)
(* pipeline's verdict is deepfake and 1 - t when it is authentic, so it    *)
(* lies in [0, 1]; at t = 0.5 both verdicts show 0.5.  (Shown values are   *)
(* in thousandths, as "{:.1%}" prints them.)                               *)
(***************************************************************************)
Reported == op = "detect_deepfakes" /\ response[2].kind = "report"

\* what the pipeline's detect returned
Verdict == EventsOf("result")[1].arg

Thousandths(t) == (t[1] * 1000) \div t[2]

C5_EffectiveConfidence ==
    Reported =>
        LET t == request.confidence_threshold
            shown == response[2].pipeline_result.permille
        IN  /\ Thousandths(t) * t[2] = t[1] * 1000
            /\ Verdict => shown = Thousandths(t)
            /\ ~Verdict => shown = 1000 - Thousandths(t)
            /\ shown \in 0..1000
            /\ t = Rat(1, 2) => shown = 500

C5_Witness ==
    /\ Reported
    /\ request.confidence_threshold = Rat(3, 10)
    /\ ~Verdict
    /\ response[2].overall_status = "AUTHENTIC"
    /\ response[2].pipeline_result.permille = 700

(***************************************************************************)
(* C6: every report contains the risk/confidence tier of its effective     *)
(* confidence (>= 0.8 highest, >= 0.6 medium, else low; labels differ by   *)
(* verdict); with threshold 0.8 and verdict deepfake it shows the highest  *)
(* tier.                                                                   *)
(***************************************************************************)
\* every piece of fixed text a report renders
RenderedStrings(text) ==
    {text.title, text.media_type, text.overall_icon, text.overall_status,
     text.recommendation}
    \cup Range(text.models_used) \cup Range(text.pipeline_models)

C6_ReportShowsRiskTier ==
    Reported =>
        LET t == request.confidence_threshold
        IN  /\ get_risk_level(avg_confidence(t, Verdict), Verdict)
                 \in RenderedStrings(response[2])
            /\ (t = Rat(8, 10) /\ Verdict) => "HIGH RISK" \in RenderedStrings(response[2])

(***************************************************************************)
(* C7: the artifact searches return None when no candidate matches a file  *)
(* in the directories searched, and otherwise a file matching the earliest *)
(* candidate that has a match, whatever matches later candidates; with or  *)
(* without an artifact the operation returns its primary result.           *)
(***************************************************************************)
Min(S) == CHOOSE x \in S : \A y \in S : x <= y

FacesDone == op = "detect_faces" /\ response[3].kind = "faces"

\* the names detect_faces looks for, in order
AnnotatedNames ==
    LET image == basename(request.image_path)
    IN  <<Name("annotated", image.a, "", image.ext),
          Name("detected", image.a, "", image.ext),
          Name("detection", image.a, "", image.ext)>>

FaceFolder == EventsOf("detector.detect")[1].arg.output_folder

\* reenact_face got as far as its search
Searched == op = "reenact_face" /\ EventsOf("glob") # <<>>

SearchDir == EventsOf("reenact_from_video")[1].arg.output_path
ResultPath == EventsOf("result")[1].arg

\* the patterns reenact_face looks for, in order
ComparisonPatterns ==
    LET source == basename(request.source_image).a
        driving == basename(request.driving_video).a
    IN  <<Name("comparison_by", source, driving, ".mp4"),
          Name("comparison_by", source, "*", ".mp4"),
          Name("comparison", "*", "", ".mp4")>>

\* the candidates of reenact_face: every pattern in the directory handed to the
\* reenactor, then every pattern in the directory of the result
Candidates ==
    [k \in 1..6 |-> IF k <= 3 THEN <<SearchDir, ComparisonPatterns[k]>>
                    ELSE <<dirname(ResultPath), ComparisonPatterns[k - 3]>>]

Hits(k) ==
    {join(Candidates[k][1], f) :
        f \in {g \in Range(files_in(listing, Candidates[k][1])) :
                  fnmatch(g, Candidates[k][2])}}

Matched == {k \in 1..6 : Hits(k) # {}}

C7_FirstCandidateWins ==
    /\ FacesDone =>
         LET present == {i \in 1..3 :
                            AnnotatedNames[i] \in Range(files_in(listing, FaceFolder))}
         IN  /\ present = {} => response[1].kind = "none"
             /\ present # {} =>
                  response[1].path = join(FaceFolder, AnnotatedNames[Min(present)])
             /\ response[3].found = Len(EventsOf("result")[1].arg)
    /\ Searched =>
         /\ response[1].path = ResultPath
         /\ Matched = {} => response[2].kind = "none"
         /\ Matched # {} => response[2].path \in Hits(Min(Matched))

\* a file that only the last pattern matches is listed first, another matches the
\* second pattern: the second pattern's file is returned
C7_Witness ==
    /\ Searched
    /\ files_in(listing, SearchDir)
         = <<Name("comparison", "other", "", ".mp4"),
             Name("comparison_by", "face", "old", ".mp4")>>
    /\ response[2].path = join(SearchDir, Name("comparison_by", "face", "old", ".mp4"))

(***************************************************************************)
(* C8: candidates are tried in a fixed order: the exact expected name,     *)
(* then the alternate names (detect_faces) or the glob patterns in the     *)
(* same directory, then the same patterns in the directory of the result;  *)
(* a comparison_{source}_by_{driving}.mp4 in the directory handed to the   *)
(* reenactor is found by the exact name, before any wildcard is tried.     *)
(***************************************************************************)
IsPrefix(p, q) == Len(p) <= Len(q) /\ \A i \in 1..Len(p) : p[i] = q[i]

Tried(ev) ==
    LET es == EventsOf(ev)
    IN  [i \in 1..Len(es) |-> <<es[i].arg.dir, es[i].arg.pattern>>]

ExactComparison == join(SearchDir, ComparisonPatterns[1])

C8_CandidateOrder ==
    /\ FacesDone =>
         /\ Tried("exists") # <<>>
         /\ IsPrefix(Tried("exists"), [i \in 1..3 |-> <<FaceFolder, AnnotatedNames[i]>>])
    /\ Searched =>
         /\ IsPrefix(Tried("glob"), Candidates)
         /\ Matched = {} => Tried("glob") = Candidates
         /\ ComparisonPatterns[1] \in Range(files_in(listing, SearchDir)) =>
              /\ Tried("glob") = <<Candidates[1]>>
              /\ response[2].path = ExactComparison

\* the exact file is there, behind two others that only wildcards match
C8_Witness ==
    /\ Searched
    /\ files_in(listing, SearchDir)
         = <<Name("comparison", "other", "", ".mp4"),
             Name("comparison_by", "face", "old", ".mp4"),
             Name("comparison_by", "face", "drive", ".mp4")>>
    /\ Len(EventsOf("glob")) = 1
    /\ response[2].path = ExactComparison

(***************************************************************************)
(* C9: a validated detect_deepfakes request makes one pipeline call: the   *)
(* pipeline is constructed once with the normalized weight map, device     *)
(* None and the threshold, and its detect is called once (not at all when  *)
(* the constructor raised); a request that fails validation makes no call; *)
(* after a raise nothing is called again and the response is an error.     *)
(***************************************************************************)
Raises == EventsOf("raised")

HasError == \E i \in 1..Len(response) : response[i].kind = "error"

C10_ErrorsBecomeMessages ==
    op # "idle" =>
        /\ ~escaped
        /\ (op = "detect_faces" /\ ~Supplied(request.image_path)) => HasError
        /\ (op = "detect_deepfakes" /\ ~Validated) => HasError
        /\ \A k \in 1..Len(Raises) :
             \E i \in 1..Len(response) :
                 response[i].kind = "error" /\ response[i].detail = Raises[k].arg

(***************************************************************************)
(* C11: a supplied media path that does not exist ends in a media-not-     *)
(* found outcome of its own: neither detect_faces nor detect_deepfakes     *)
(* reports it as "no file provided", and detect_deepfakes does not go on   *)
(* with the other supplied media.                                          *)
(***************************************************************************)
Missing(path) == path # None /\ path \notin ExistingUploads

C11_MissingMediaIsDistinct ==
    /\ (op = "detect_faces" /\ Missing(request.image_path)) =>
         /\ response[3].kind = "error"
         /\ response[3].message # "Error: No image provided"
    /\ (op = "detect_deepfakes"
        /\ (Missing(request.image_file) \/ Missing(request.video_file))) =>
         /\ response[2].kind = "error"
         /\ response[2] # UploadError
         /\ CtorCalls = <<>>
         /\ DetectCalls = <<>>

(***************************************************************************)
(* C13: whenever the pipeline's detect returns, detect_deepfakes returns   *)
(* the verdict report; the annotated-media slot is None (no artifact is    *)
(* looked for) and the text is a report, never an error message.           *)
(***************************************************************************)
PipelineReturned == op = "detect_deepfakes" /\ EventsOf("result") # <<>>

C13_ReportWithoutArtifact ==
    PipelineReturned =>
        /\ response[1] = Out(None)
        /\ response[2].kind = "report"
        /\ response[2].overall_status = IF Verdict THEN "DEEPFAKE" ELSE "AUTHENTIC"
        /\ Raises = <<>>

C13_Witness ==
    /\ PipelineReturned
    /\ Verdict
    /\ response[1].kind = "none"
    /\ response[2].kind = "report"
    /\ response[2].overall_status = "DEEPFAKE"

(***************************************************************************)
(* Reading a kept request the way the current one is read.                 *)
(***************************************************************************)
EventsIn(r, ev) == SelectSeq(r.log, LAMBDA e : e.ev = ev)

ReportedIn(r) == r.op = "detect_deepfakes" /\ r.response[2].kind = "report"

\* what the report is said to depend on, read off the request and the calls made:
\* media kind, file name, requested models, weight map, threshold, frame count,
\* verdict
ReportKey(r) ==
    LET media_path == EventsIn(r, "pipeline.detect")[1].arg.media_path
    IN  [media_kind |-> IF media_path = r.request.image_file THEN "image" ELSE "video",
         file_name |-> media_path[Len(media_path)],
         requested |-> r.request.models_to_use,
         weights |-> EventsIn(r, "PipelineDeepfakeDetection")[1].arg.model_configs,
         threshold |-> r.request.confidence_threshold,
         num_frames |-> r.request.num_frames,
         verdict |-> EventsIn(r, "result")[1].arg]

Handed(r) ==
    IF r.op = "detect_faces"
    THEN {e.arg.output_folder : e \in Range(EventsIn(r, "detector.detect"))}
    ELSE IF r.op = "reenact_face"
    THEN {e.arg.output_path : e \in Range(EventsIn(r, "reenact_from_video"))}
    ELSE {e.arg.output_folder : e \in Range(EventsIn(r, "pipeline.detect"))}

ModelOf(r) ==
    IF r.op = "detect_faces" THEN r.request.detection_model
    ELSE IF r.op = "reenact_face" THEN r.request.reenactor_model
    ELSE ""

Nested(f, g) == IsPrefix(f, g) \/ IsPrefix(g, f)

ConfidenceOf(r) ==
    LET t == r.request.confidence_threshold
    IN  IF EventsIn(r, "result")[1].arg THEN t ELSE <<t[2] - t[1], t[2]>>

BarOf(r) == r.response[2].pipeline_result

====
